---- MODULE Spec2Model ----
(***************************************************************************)
(* The commit log of distributed-services-with-go: Log (segment list,      *)
(* active segment, readers/writer lock) over segments (segment.go), each   *)
(* pairing a store file and an index file.  store.go and index.go are not  *)
(* part of the sources at hand; their behaviour follows spec.md 3, 4.1,    *)
(* 4.2 and 6.                                                              *)
(***************************************************************************)
EXTENDS Integers, Sequences, FiniteSets, TLC

VARIABLES
    cfg,            \* Log.Config after NewLog's defaulting
    dirExists,      \* the directory Log.Dir exists
    dir,            \* directory listing: base offset -> file pair id
    files,          \* file pairs (inodes): store entries, index entries, index size
    heap,           \* every *segment allocated by newSegment
    segments,       \* Log.segments: pointers into heap
    activeSegment,  \* Log.activeSegment: pointer into heap (0 = nil)
    mu,             \* Log.mu: sync.RWMutex
    crashed,        \* the process died (fatal error in the runtime)
    pc,             \* position of the caller inside Remove / Reset
    res,            \* the last call: its arguments and what it gave back
    appended,       \* offsets and payloads of the successful Log.Append calls
    calls,          \* number of calls so far: Append; Truncate, Close, Remove, Reset; NewLog
    callers         \* goroutines inside Log.Append / Log.Read: the line each has reached

vars == <<cfg, dirExists, dir, files, heap, segments, activeSegment, mu,
          crashed, pc, res, appended, calls, callers>>

----------------------------------------------------------------------------
(* Bounds of the model *)

MaxAppends == 4
MaxAdmin == 2
MaxReopens == 1
NumCallers == 2

(* Program constants *)

lenWidth == 8
entWidth == 12
DefaultMaxIndexBytes == 1024
TestMaxStoreBytes == 32
TestMaxIndexBytes == 13

(* Inputs *)

\* api.Record.Value: "hello world" (11 bytes) and a one-byte payload
Payloads == { <<1, 2, 3, 4, 5, 6, 7, 8, 9, 10, 11>>, <<7>> }

\* Config as the caller passes it to NewLog
RawConfigs ==
    [MaxStoreBytes : {0, TestMaxStoreBytes},
     MaxIndexBytes : {0, TestMaxIndexBytes},
     InitialOffset : {0, 1}]

\* offsets a caller asks for: everything assigned so far, and beyond
Offsets == 0 .. (MaxAppends + 1)

NoRecord == [Value |-> <<>>, Offset |-> 0]

\* the goroutines that call into one Log at the same time
Callers == 1..NumCallers

\* a goroutine that is in no call
IdleCaller == [pc |-> "idle", val |-> << >>, arg |-> 0, seg |-> 0, ticket |-> 0]

----------------------------------------------------------------------------
(* sync.RWMutex, as Log uses it *)

MuFree == [writer |-> FALSE, readers |-> 0]

\* Lock that takes nothing: callers are not kept out
LockNothing(m) == m

Lock(m) == [m EXCEPT !.writer = TRUE]

Unlock(m) == [m EXCEPT !.writer = FALSE]

\* RUnlock of a mutex no reader holds is a fatal error of the runtime
\* ("sync: RUnlock of unlocked RWMutex"); the mutex stays as it was.
RUnlockFatal(m) == m.readers = 0

RUnlock(m) == IF m.readers = 0 THEN m ELSE [m EXCEPT !.readers = @ - 1]

----------------------------------------------------------------------------
(* proto.Marshal / proto.Unmarshal of api.Record: a field is on the wire
   only when it is not the zero value. *)

Marshal(record) ==
    (IF record.Value # <<>>
     THEN << [tag |-> 1, bytes |-> record.Value, num |-> 0] >> ELSE << >>)
    \o (IF record.Offset # 0
        THEN << [tag |-> 2, bytes |-> <<>>, num |-> record.Offset] >> ELSE << >>)

\* encoded length: tag byte, length byte and the payload; tag byte and a
\* one-byte varint for offsets below 128
MarshalLen(p) ==
    LET F(i) == IF p[i].tag = 1 THEN 2 + Len(p[i].bytes) ELSE 2
    IN  IF Len(p) = 0 THEN 0
        ELSE IF Len(p) = 1 THEN F(1)
        ELSE F(1) + F(2)

Unmarshal(p) ==
    LET val == IF \E i \in 1..Len(p) : p[i].tag = 1
               THEN (CHOOSE i \in 1..Len(p) : p[i].tag = 1) ELSE 0
        off == IF \E i \in 1..Len(p) : p[i].tag = 2
               THEN (CHOOSE i \in 1..Len(p) : p[i].tag = 2) ELSE 0
    IN  [Value  |-> IF val = 0 THEN <<>> ELSE p[val].bytes,
         Offset |-> IF off = 0 THEN 0 ELSE p[off].num]

----------------------------------------------------------------------------
(* store: length-prefixed entries appended to a file opened O_APPEND *)

\* size of the store file in bytes
FileStoreSize(f) ==
    IF Len(f.store) = 0 THEN 0
    ELSE f.store[Len(f.store)].pos + f.store[Len(f.store)].width

\* store.Append(p): the entry lands at the end of the file; the position
\* handed back is the store's own running size
StoreAppend(f, p) ==
    [f EXCEPT !.store = Append(@, [pos   |-> FileStoreSize(f),
                                   width |-> lenWidth + MarshalLen(p),
                                   data  |-> p])]

StoreHas(f, pos) == \E i \in 1..Len(f.store) : f.store[i].pos = pos

\* store.Read(pos): the bytes of the entry that begins at pos
StoreRead(f, pos) == f.store[CHOOSE i \in 1..Len(f.store) : f.store[i].pos = pos].data

----------------------------------------------------------------------------
(* index: fixed-width entries in a file grown to MaxIndexBytes while open *)

ZeroEntry == [off |-> 0, pos |-> 0]

\* the entry at slot n (0-based) of the index file: what was written
\* there, or the zero bytes of the pre-allocated tail
FileIndexEntry(f, n) == IF n + 1 <= Len(f.index) THEN f.index[n + 1] ELSE ZeroEntry

\* index.Read(in) on an index of logical size `size`:
\*   "EOF" when empty or past the logical size, "fault" when the slot lies
\*   beyond the end of the file under the mapping, else the entry.
IndexRead(f, size, in) ==
    IF size = 0 THEN [err |-> "EOF", ent |-> ZeroEntry]
    ELSE LET out == IF in = -1 THEN (size \div entWidth) - 1 ELSE in
             pos == out * entWidth
         IN  IF out < 0 \/ size < pos + entWidth
             THEN [err |-> "EOF", ent |-> ZeroEntry]
             ELSE IF f.indexPhys < pos + entWidth
             THEN [err |-> "fault", ent |-> ZeroEntry]
             ELSE [err |-> "nil", ent |-> FileIndexEntry(f, out)]

\* index.Write: capacity check against the mapped size
IndexHasRoom(size, c) == size + entWidth <= c.MaxIndexBytes

PadTo(s, n) == [i \in 1..n |-> IF i <= Len(s) THEN s[i] ELSE ZeroEntry]

IndexWrite(f, size, off, pos) ==
    LET n == size \div entWidth
    IN  [f EXCEPT !.index = [PadTo(@, IF Len(@) > n + 1 THEN Len(@) ELSE n + 1)
                                EXCEPT ![n + 1] = [off |-> off, pos |-> pos]]]

\* index.Close: the file is cut back (or grown, with zeros) to the logical size
IndexClose(f, size) ==
    [f EXCEPT !.indexPhys = size,
              !.index = PadTo(@, size \div entWidth)]

----------------------------------------------------------------------------
(* segment (segment.go).  A world w holds what a call can change:
   dirExists, dir, files, heap, segments, activeSegment. *)

EmptyFile == [store |-> << >>, index |-> << >>, indexPhys |-> 0]

NoSegment == [baseOffset |-> 0, nextOffset |-> 0, fid |-> 0,
              storeSize |-> 0, indexSize |-> 0, closed |-> TRUE]

\* newSegment(dir, baseOffset, c): opens, creating when absent, the files
\* <baseOffset>.store and <baseOffset>.index; nextOffset from the last
\* index entry.
newSegment(w, baseOffset, c) ==
    IF ~w.dirExists
    THEN [err |-> "ENOENT", seg |-> NoSegment, w |-> w]
    ELSE LET exists == baseOffset \in DOMAIN w.dir
             fid    == IF exists THEN w.dir[baseOffset] ELSE Len(w.files) + 1
             f0     == IF exists THEN w.files[fid] ELSE EmptyFile
             \* newStore: size of the file; newIndex: size of the file, then
             \* the file is grown to MaxIndexBytes for the mapping
             size   == f0.indexPhys
             f1     == [f0 EXCEPT !.indexPhys = c.MaxIndexBytes]
             last   == IndexRead(f1, size, -1)
             s      == [baseOffset |-> baseOffset,
                        nextOffset |-> IF last.err # "nil" THEN baseOffset
                                       ELSE baseOffset + last.ent.off + 1,
                        fid        |-> fid,
                        storeSize  |-> FileStoreSize(f0),
                        indexSize  |-> size,
                        closed     |-> FALSE]
         IN  [err |-> "nil", seg |-> s,
              w   |-> [w EXCEPT !.dir   = (baseOffset :> fid) @@ @,
                                !.files = IF exists THEN [@ EXCEPT ![fid] = f1]
                                          ELSE Append(@, f1)]]

\* segment.IsMaxed
IsMaxed(s, c) ==
    s.storeSize >= c.MaxStoreBytes \/ s.indexSize + entWidth > c.MaxIndexBytes

\* segment.Append on the segment at heap address h
segmentAppend(w, h, record, c) ==
    LET s   == w.heap[h]
        cur == s.nextOffset
        p   == Marshal([record EXCEPT !.Offset = cur])
    IN  IF s.closed
        THEN [err |-> "closed", off |-> 0, w |-> w]       \* store.Append fails
        ELSE LET pos == s.storeSize
                 f1  == StoreAppend(w.files[s.fid], p)
                 s1  == [s EXCEPT !.storeSize = @ + lenWidth + MarshalLen(p)]
             IN  IF ~IndexHasRoom(s.indexSize, c)
                 THEN [err |-> "EOF", off |-> 0,            \* index.Write fails
                       w   |-> [w EXCEPT !.files[s.fid] = f1, !.heap[h] = s1]]
                 ELSE [err |-> "nil", off |-> cur,
                       w   |-> [w EXCEPT
                                  !.files[s.fid] =
                                      IndexWrite(f1, s.indexSize, s.nextOffset - s.baseOffset, pos),
                                  !.heap[h] = [s1 EXCEPT !.indexSize = @ + entWidth,
                                                         !.nextOffset = @ + 1]]]

\* segment.Read(off)
segmentRead(w, s, off) ==
    IF s.closed THEN [err |-> "closed", rec |-> NoRecord]
    ELSE LET f == w.files[s.fid]
             e == IndexRead(f, s.indexSize, off - s.baseOffset)
         IN  IF e.err # "nil" THEN [err |-> e.err, rec |-> NoRecord]
             ELSE IF ~StoreHas(f, e.ent.pos) THEN [err |-> "EOF", rec |-> NoRecord]
             ELSE [err |-> "nil", rec |-> Unmarshal(StoreRead(f, e.ent.pos))]

\* segment.Close: index, then store; a second Close fails
segmentClose(w, h) ==
    LET s == w.heap[h]
    IN  IF s.closed THEN [err |-> "closed", w |-> w]
        ELSE [err |-> "nil",
              w   |-> [w EXCEPT !.files[s.fid] = IndexClose(@, s.indexSize),
                                !.heap[h].closed = TRUE]]

\* segment.Remove: Close, then os.Remove of both files by name
segmentRemove(w, h) ==
    LET c1 == segmentClose(w, h)
        b  == w.heap[h].baseOffset
    IN  IF c1.err # "nil" THEN c1
        ELSE IF ~c1.w.dirExists \/ b \notin DOMAIN c1.w.dir
        THEN [err |-> "ENOENT", w |-> c1.w]
        ELSE [err |-> "nil",
              w   |-> [c1.w EXCEPT !.dir = [x \in (DOMAIN @) \ {b} |-> @[x]]]]

----------------------------------------------------------------------------
(* Log (server_test.go 47-263) *)

NoDir == [b \in {} |-> 0]

\* NewLog's defaulting of the configuration
NewLogConfig(c) ==
    LET c1 == IF c.MaxStoreBytes = 0
              THEN [c EXCEPT !.MaxIndexBytes = DefaultMaxIndexBytes] ELSE c
    IN  IF c1.MaxIndexBytes = 0
        THEN [c1 EXCEPT !.MaxIndexBytes = DefaultMaxIndexBytes] ELSE c1

\* l.newSegment(off): the new segment is appended to the list and made active
LogNewSegment(w, off, c) ==
    LET r == newSegment(w, off, c)
    IN  IF r.err # "nil" THEN [err |-> r.err, w |-> w]
        ELSE [err |-> "nil",
              w   |-> [r.w EXCEPT !.heap = Append(@, r.seg),
                                  !.segments = Append(@, Len(r.w.heap) + 1),
                                  !.activeSegment = Len(r.w.heap) + 1]]

\* os.ReadDir and the parse of the names: every base offset twice (its
\* .index and its .store), sorted ascending
RECURSIVE SortedBaseOffsets(_)
SortedBaseOffsets(S) ==
    IF S = {} THEN << >>
    ELSE LET m == CHOOSE x \in S : \A y \in S : x <= y
         IN  << m, m >> \o SortedBaseOffsets(S \ {m})

\* the loop of setup: one segment per pair of names (i 1-based here)
RECURSIVE setupLoop(_, _, _, _)
setupLoop(w, baseOffsets, i, c) ==
    IF i > Len(baseOffsets) THEN [err |-> "nil", w |-> w]
    ELSE LET r == LogNewSegment(w, baseOffsets[i], c)
         IN  IF r.err # "nil" THEN r
             ELSE setupLoop(r.w, baseOffsets, i + 2, c)

\* l.setup()
setup(w, c) ==
    IF ~w.dirExists THEN [err |-> "ENOENT", w |-> w]
    ELSE LET r == setupLoop(w, SortedBaseOffsets(DOMAIN w.dir), 1, c)
         IN  IF r.err # "nil" THEN r
             ELSE IF r.w.segments = << >>
             THEN LogNewSegment(r.w, c.InitialOffset, c)
             ELSE r

\* Log.Append that rolls over as soon as the record would take the store
\* beyond MaxStoreBytes, before the segment is maxed
LogAppendRollsBeforeFull(w, record, c) ==
    LET a == w.heap[w.activeSegment]
        p == Marshal([record EXCEPT !.Offset = a.nextOffset])
    IN  IF IsMaxed(a, c) \/ a.storeSize + lenWidth + MarshalLen(p) > c.MaxStoreBytes
        THEN LET n == LogNewSegment(w, a.nextOffset, c)
             IN  IF n.err # "nil" THEN [err |-> n.err, off |-> 0, w |-> w]
                 ELSE segmentAppend(n.w, n.w.activeSegment, record, c)
        ELSE segmentAppend(w, w.activeSegment, record, c)

\* Log.Append that rolls over to the offset after the old nextOffset
LogAppendSkipsOffset(w, record, c) ==
    LET a == w.heap[w.activeSegment]
    IN  IF IsMaxed(a, c)
        THEN LET n == LogNewSegment(w, a.nextOffset + 1, c)
             IN  IF n.err # "nil" THEN [err |-> n.err, off |-> 0, w |-> w]
                 ELSE segmentAppend(n.w, n.w.activeSegment, record, c)
        ELSE segmentAppend(w, w.activeSegment, record, c)

\* body of Log.Append, between Lock and Unlock
LogAppend(w, record, c) ==
    LET a == w.heap[w.activeSegment]
    IN  IF IsMaxed(a, c)
        THEN LET n == LogNewSegment(w, a.nextOffset, c)
             IN  IF n.err # "nil" THEN [err |-> n.err, off |-> 0, w |-> w]
                 ELSE segmentAppend(n.w, n.w.activeSegment, record, c)
        ELSE segmentAppend(w, w.activeSegment, record, c)

\* the scan of Log.Read: position in the list of the first segment with
\* baseOffset <= off < nextOffset, 0 when there is none
FindSegment(w, off) ==
    LET hit(i) == /\ w.heap[w.segments[i]].baseOffset <= off
                  /\ off < w.heap[w.segments[i]].nextOffset
    IN  IF \E i \in 1..Len(w.segments) : hit(i)
        THEN CHOOSE i \in 1..Len(w.segments) :
                 hit(i) /\ \A j \in 1..(i - 1) : ~hit(j)
        ELSE 0

\* body of Log.Read: the values of its return statement
LogRead(w, off) ==
    LET i == FindSegment(w, off)
    IN  IF i = 0 \/ w.heap[w.segments[i]].nextOffset <= off
        THEN [err |-> "ErrOffsetOutOfRange", errOffset |-> off, rec |-> NoRecord]
        ELSE LET r == segmentRead(w, w.heap[w.segments[i]], off)
             IN  [err |-> r.err, errOffset |-> 0, rec |-> r.rec]

\* the loop of Log.Close and its early return
RECURSIVE closeLoop(_, _)
closeLoop(w, i) ==
    IF i > Len(w.segments) THEN [err |-> "nil", w |-> w]
    ELSE LET r == segmentClose(w, w.segments[i])
         IN  IF r.err # "nil" THEN r ELSE closeLoop(r.w, i + 1)

\* Truncate with the comparison s.nextOffset <= lowest: a segment whose
\* last offset is lowest itself is kept
RECURSIVE truncateLoopOffByOne(_, _, _, _)
truncateLoopOffByOne(w, lowest, i, kept) ==
    IF i > Len(w.segments)
    THEN [err |-> "nil", w |-> [w EXCEPT !.segments = kept]]
    ELSE IF w.heap[w.segments[i]].nextOffset <= lowest
    THEN LET r == segmentRemove(w, w.segments[i])
         IN  IF r.err # "nil" THEN r
             ELSE truncateLoopOffByOne(r.w, lowest, i + 1, kept)
    ELSE truncateLoopOffByOne(w, lowest, i + 1, Append(kept, w.segments[i]))

\* the loop of Log.Truncate: kept holds the segments to keep so far
RECURSIVE truncateLoop(_, _, _, _)
truncateLoop(w, lowest, i, kept) ==
    IF i > Len(w.segments)
    THEN [err |-> "nil", w |-> [w EXCEPT !.segments = kept]]
    ELSE IF w.heap[w.segments[i]].nextOffset <= lowest + 1
    THEN LET r == segmentRemove(w, w.segments[i])
         IN  IF r.err # "nil" THEN r
             ELSE truncateLoop(r.w, lowest, i + 1, kept)
    ELSE truncateLoop(w, lowest, i + 1, Append(kept, w.segments[i]))

LogTruncate(w, lowest) == truncateLoop(w, lowest, 1, << >>)

\* Log.LowestOffset / Log.HighestOffset: the value of the return statement;
\* indexing an empty list panics
LogLowestOffset(w) ==
    IF w.segments = << >> THEN [err |-> "panic", off |-> 0]
    ELSE [err |-> "nil", off |-> w.heap[w.segments[1]].baseOffset]

LogHighestOffset(w) ==
    IF w.segments = << >> THEN [err |-> "panic", off |-> 0]
    ELSE LET off == w.heap[w.segments[Len(w.segments)]].nextOffset
         IN  [err |-> "nil", off |-> IF off = 0 THEN 0 ELSE off - 1]

\* Log.Reader and io.ReadAll of it: the store files of the listed segments
\* back to back, each read from position 0 through the segment's own store
RECURSIVE LogReader(_, _)
LogReader(w, i) ==
    IF i > Len(w.segments) THEN << >>
    ELSE w.files[w.heap[w.segments[i]].fid].store \o LogReader(w, i + 1)

----------------------------------------------------------------------------
(* The state as a world, and back *)

World == [dirExists |-> dirExists, dir |-> dir, files |-> files, heap |-> heap,
          segments |-> segments, activeSegment |-> activeSegment]

EmptyWorld == [dirExists |-> TRUE, dir |-> NoDir, files |-> << >>, heap |-> << >>,
               segments |-> << >>, activeSegment |-> 0]

Becomes(w) ==
    /\ dirExists' = w.dirExists
    /\ dir' = w.dir
    /\ files' = w.files
    /\ heap' = w.heap
    /\ segments' = w.segments
    /\ activeSegment' = w.activeSegment

\* what a call gave back: returned is FALSE when the call never returned
Result(op, arg, val, returned, err, off, rec, stream) ==
    [op |-> op, arg |-> arg, val |-> val, returned |-> returned, err |-> err,
     off |-> off, rec |-> rec, stream |-> stream]

Init ==
    \E raw \in RawConfigs :
        LET c == NewLogConfig(raw)
            r == setup(EmptyWorld, c)
        IN  /\ cfg = c
            /\ dirExists = r.w.dirExists
            /\ dir = r.w.dir
            /\ files = r.w.files
            /\ heap = r.w.heap
            /\ segments = r.w.segments
            /\ activeSegment = r.w.activeSegment
            /\ mu = MuFree
            /\ crashed = FALSE
            /\ pc = "idle"
            /\ res = Result("NewLog", 0, << >>, TRUE, r.err, 0, NoRecord, << >>)
            /\ appended = << >>
            /\ calls = [appends |-> 0, admin |-> 0, opens |-> 1]
            /\ callers = [p \in Callers |-> IdleCaller]

\* a call can start: the process lives and the lock can be taken
CanLock == ~crashed /\ ~mu.writer /\ mu.readers = 0

\* Log.Append(record): Lock ... defer Unlock
CallAppend(v) ==
    /\ CanLock
    /\ calls.appends < MaxAppends
    /\ \E r \in { LogAppend(World, [Value |-> v, Offset |-> 0], cfg) } :
           /\ Becomes(r.w)
           /\ res' = Result("Append", 0, v, TRUE, r.err, r.off, NoRecord, << >>)
           /\ appended' = IF r.err = "nil"
                           THEN Append(appended, [off |-> r.off, val |-> v])
                           ELSE appended
    /\ mu' = Unlock(Lock(mu))
    /\ calls' = [calls EXCEPT !.appends = @ + 1]
    /\ UNCHANGED <<cfg, callers, crashed, pc>>

\* Log.Read(off) as its caller sees it: Lock, the body, and the deferred
\* RUnlock of a lock that is held for writing
ReadCall(w, m, off) ==
    LET r == LogRead(w, off)
    IN  Result("Read", off, << >>, r.err # "fault" /\ ~RUnlockFatal(Lock(m)),
               r.err, r.errOffset, r.rec, << >>)

CallRead(off) ==
    /\ CanLock
    /\ \E r \in { ReadCall(World, mu, off) } :
           /\ res' = r
           /\ crashed' = ~r.returned
           /\ mu' = IF r.err = "fault" THEN Lock(mu) ELSE RUnlock(Lock(mu))
    /\ UNCHANGED <<cfg, callers, dirExists, dir, files, heap, segments, activeSegment,
                   pc, appended, calls>>

\* Log.LowestOffset(): Lock ... defer RUnlock
LowestOffsetCall(w, m) ==
    LET r == LogLowestOffset(w)
    IN  Result("LowestOffset", 0, << >>, r.err = "nil" /\ ~RUnlockFatal(Lock(m)),
               r.err, r.off, NoRecord, << >>)

CallLowestOffset ==
    /\ CanLock
    /\ \E r \in { LowestOffsetCall(World, mu) } :
           /\ res' = r
           /\ crashed' = ~r.returned
    /\ mu' = RUnlock(Lock(mu))
    /\ UNCHANGED <<cfg, callers, dirExists, dir, files, heap, segments, activeSegment,
                   pc, appended, calls>>

\* Log.HighestOffset(): Lock ... defer RUnlock
HighestOffsetCall(w, m) ==
    LET r == LogHighestOffset(w)
    IN  Result("HighestOffset", 0, << >>, r.err = "nil" /\ ~RUnlockFatal(Lock(m)),
               r.err, r.off, NoRecord, << >>)

CallHighestOffset ==
    /\ CanLock
    /\ \E r \in { HighestOffsetCall(World, mu) } :
           /\ res' = r
           /\ crashed' = ~r.returned
    /\ mu' = RUnlock(Lock(mu))
    /\ UNCHANGED <<cfg, callers, dirExists, dir, files, heap, segments, activeSegment,
                   pc, appended, calls>>

\* Log.Reader(): Lock ... defer RUnlock; the stream is what io.ReadAll of
\* the returned reader gives (a closed store cannot be read)
ReaderCall(w, m) ==
    LET shut == \E i \in 1..Len(w.segments) : w.heap[w.segments[i]].closed
    IN  Result("Reader", 0, << >>, ~RUnlockFatal(Lock(m)),
               IF shut THEN "closed" ELSE "nil", 0, NoRecord,
               IF shut THEN << >> ELSE LogReader(w, 1))

CallReader ==
    /\ CanLock
    /\ \E r \in { ReaderCall(World, mu) } :
           /\ res' = r
           /\ crashed' = ~r.returned
    /\ mu' = RUnlock(Lock(mu))
    /\ UNCHANGED <<cfg, callers, dirExists, dir, files, heap, segments, activeSegment,
                   pc, appended, calls>>

\* Log.Truncate(lowest): Lock ... defer Unlock
CallTruncate(lowest) ==
    /\ CanLock
    /\ calls.admin < MaxAdmin
    /\ \E r \in { LogTruncate(World, lowest) } :
           /\ Becomes(r.w)
           /\ res' = Result("Truncate", lowest, << >>, TRUE, r.err, 0, NoRecord, << >>)
    /\ mu' = Unlock(Lock(mu))
    /\ calls' = [calls EXCEPT !.admin = @ + 1]
    /\ UNCHANGED <<cfg, callers, crashed, pc, appended>>

\* Log.Close(): Lock ... defer Unlock
CallClose ==
    /\ CanLock
    /\ pc = "idle"
    /\ calls.admin < MaxAdmin
    /\ \E r \in { closeLoop(World, 1) } :
           /\ Becomes(r.w)
           /\ res' = Result("Close", 0, << >>, TRUE, r.err, 0, NoRecord, << >>)
    /\ mu' = Unlock(Lock(mu))
    /\ calls' = [calls EXCEPT !.admin = @ + 1]
    /\ UNCHANGED <<cfg, callers, crashed, pc, appended>>

\* Log.Remove() and Log.Reset(), first step: l.Close() under the lock.
\* The rest of either runs without the lock, so other calls may come between.
CallRemoveClose(op) ==
    /\ CanLock
    /\ pc = "idle"
    /\ calls.admin < MaxAdmin
    /\ \E r \in { closeLoop(World, 1) } :
           /\ Becomes(r.w)
           /\ IF r.err # "nil"
              THEN /\ pc' = "idle"
                   /\ res' = Result(op, 0, << >>, TRUE, r.err, 0, NoRecord, << >>)
              ELSE /\ pc' = op
                   /\ res' = Result("Close", 0, << >>, TRUE, "nil", 0, NoRecord, << >>)
    /\ mu' = Unlock(Lock(mu))
    /\ calls' = [calls EXCEPT !.admin = @ + 1]
    /\ UNCHANGED <<cfg, callers, crashed, appended>>

\* Log.Remove(), second step: os.RemoveAll(l.Dir)
CallRemoveAll ==
    /\ ~crashed
    /\ pc \in {"Remove", "Reset"}
    /\ dirExists' = FALSE
    /\ dir' = NoDir
    /\ pc' = IF pc = "Reset" THEN "Reset.setup" ELSE "idle"
    /\ res' = Result("Remove", 0, << >>, TRUE, "nil", 0, NoRecord, << >>)
    /\ UNCHANGED <<cfg, callers, files, heap, segments, activeSegment, mu, crashed,
                   appended, calls>>

\* Log.Reset(), last step: l.setup()
CallResetSetup ==
    /\ ~crashed
    /\ pc = "Reset.setup"
    /\ \E r \in { setup(World, cfg) } :
           /\ Becomes(r.w)
           /\ res' = Result("Reset", 0, << >>, TRUE, r.err, 0, NoRecord, << >>)
    /\ pc' = "idle"
    /\ UNCHANGED <<cfg, callers, mu, crashed, appended, calls>>

\* NewLog(dir, c) on the directory of a log that was closed: a new Log
CallReopen ==
    /\ ~crashed
    /\ pc = "idle"
    /\ dirExists
    /\ calls.opens <= MaxReopens
    /\ res.op = "Close" /\ res.err = "nil"
    /\ \E r \in { setup([EmptyWorld EXCEPT !.dir = dir, !.files = files], cfg) } :
           /\ Becomes(r.w)
           /\ res' = Result("NewLog", 0, << >>, TRUE, r.err, 0, NoRecord, << >>)
    /\ mu' = MuFree
    /\ calls' = [calls EXCEPT !.opens = @ + 1]
    /\ UNCHANGED <<cfg, callers, crashed, pc, appended>>

Next ==
    \/ \E v \in Payloads : CallAppend(v)
    \/ \E off \in Offsets : CallRead(off)
    \/ CallLowestOffset
    \/ CallHighestOffset
    \/ CallReader
    \/ \E lowest \in Offsets : CallTruncate(lowest)
    \/ CallClose
    \/ \E op \in {"Remove", "Reset"} : CallRemoveClose(op)
    \/ CallRemoveAll
    \/ CallResetSetup
    \/ CallReopen

Spec == Init /\ [][Next]_vars

----------------------------------------------------------------------------
(* Log.Append and Log.Read line by line, called by several goroutines *)

\* Append, line 141: l.mu.Lock()
AppendLock(p, v) ==
    /\ CanLock
    /\ callers[p].pc = "idle"
    /\ calls.appends < MaxAppends
    /\ mu' = Lock(mu)
    /\ calls' = [calls EXCEPT !.appends = @ + 1]
    /\ callers' = [callers EXCEPT ![p] = [IdleCaller EXCEPT !.pc = "Append.IsMaxed",
                                                            !.val = v,
                                                            !.ticket = calls.appends + 1]]
    /\ UNCHANGED <<cfg, dirExists, dir, files, heap, segments, activeSegment,
                   crashed, pc, res, appended>>

\* Append, lines 144-146 and newSegment, lines 131-135: the test of
\* IsMaxed; when maxed, the new segment is made and appended to l.segments
AppendIsMaxed(p) ==
    /\ ~crashed
    /\ callers[p].pc = "Append.IsMaxed"
    /\ IF IsMaxed(heap[activeSegment], cfg)
       THEN \E n \in { LogNewSegment(World, heap[activeSegment].nextOffset, cfg) } :
                IF n.err # "nil"
                THEN /\ callers' = [callers EXCEPT ![p].pc = "Append.Unlock"]
                     /\ res' = Result("Append", 0, callers[p].val, TRUE, n.err, 0,
                                      NoRecord, << >>)
                     /\ UNCHANGED <<dirExists, dir, files, heap, segments, activeSegment>>
                ELSE /\ callers' = [callers EXCEPT ![p].pc = "Append.activeSegment",
                                                   ![p].seg = n.w.activeSegment]
                     /\ Becomes([n.w EXCEPT !.activeSegment = activeSegment])
                     /\ UNCHANGED res
       ELSE /\ callers' = [callers EXCEPT ![p].pc = "Append.segment"]
            /\ UNCHANGED <<dirExists, dir, files, heap, segments, activeSegment, res>>
    /\ UNCHANGED <<cfg, mu, crashed, pc, appended, calls>>

\* newSegment, line 136: l.activeSegment = s
AppendActiveSegment(p) ==
    /\ ~crashed
    /\ callers[p].pc = "Append.activeSegment"
    /\ activeSegment' = callers[p].seg
    /\ callers' = [callers EXCEPT ![p].pc = "Append.segment"]
    /\ UNCHANGED <<cfg, dirExists, dir, files, heap, segments, mu, crashed, pc,
                   res, appended, calls>>

\* Append, line 150: l.activeSegment.Append(record)
AppendSegment(p) ==
    /\ ~crashed
    /\ callers[p].pc = "Append.segment"
    /\ \E r \in { segmentAppend(World, activeSegment,
                                [Value |-> callers[p].val, Offset |-> 0], cfg) } :
           /\ Becomes(r.w)
           /\ res' = Result("Append", 0, callers[p].val, TRUE, r.err, r.off,
                            NoRecord, << >>)
           /\ appended' = IF r.err = "nil"
                           THEN Append(appended, [off |-> r.off, val |-> callers[p].val,
                                                  ticket |-> callers[p].ticket,
                                                  caller |-> p])
                           ELSE appended
    /\ callers' = [callers EXCEPT ![p].pc = "Append.Unlock"]
    /\ UNCHANGED <<cfg, mu, crashed, pc, calls>>

\* Append, line 142: the deferred l.mu.Unlock()
AppendUnlock(p) ==
    /\ ~crashed
    /\ callers[p].pc = "Append.Unlock"
    /\ mu' = Unlock(mu)
    /\ callers' = [callers EXCEPT ![p] = IdleCaller]
    /\ UNCHANGED <<cfg, dirExists, dir, files, heap, segments, activeSegment,
                   crashed, pc, res, appended, calls>>

\* Read, line 154: l.mu.Lock()
ReadLock(p, off) ==
    /\ CanLock
    /\ callers[p].pc = "idle"
    /\ mu' = Lock(mu)
    /\ callers' = [callers EXCEPT ![p] = [IdleCaller EXCEPT !.pc = "Read.segments",
                                                            !.arg = off]]
    /\ UNCHANGED <<cfg, dirExists, dir, files, heap, segments, activeSegment,
                   crashed, pc, res, appended, calls>>

\* Read, lines 156-166 and the deferred RUnlock of line 155
ReadSegments(p) ==
    /\ ~crashed
    /\ callers[p].pc = "Read.segments"
    /\ \E r \in { ReadCall(World, mu, callers[p].arg) } :
           /\ res' = r
           /\ crashed' = ~r.returned
           /\ mu' = IF r.err = "fault" THEN mu ELSE RUnlock(mu)
    /\ callers' = [callers EXCEPT ![p] = IdleCaller]
    /\ UNCHANGED <<cfg, dirExists, dir, files, heap, segments, activeSegment,
                   pc, appended, calls>>

NextCallers ==
    \/ \E p \in Callers, v \in Payloads : AppendLock(p, v)
    \/ \E p \in Callers : AppendIsMaxed(p)
    \/ \E p \in Callers : AppendActiveSegment(p)
    \/ \E p \in Callers : AppendSegment(p)
    \/ \E p \in Callers : AppendUnlock(p)
    \/ \E p \in Callers, off \in Offsets : ReadLock(p, off)
    \/ \E p \in Callers : ReadSegments(p)

SpecCallers == Init /\ [][NextCallers]_vars

----------------------------------------------------------------------------
(* Properties *)

\* the i-th successful append is still covered by a segment of the list
Retained(i) == FindSegment(World, appended[i].off) # 0

\* the log is the one NewLog made on the empty directory, used by Append
\* and the reading calls only
Plain == calls.opens = 1 /\ calls.admin = 0

\* a step that is a call of Log.Truncate which returned nil
TruncateReturnedNil ==
    res'.op = "Truncate" /\ res'.err = "nil" /\ calls'.admin # calls.admin

\* C1: on a log created on an empty directory with InitialOffset 0, the
\* successful Log.Append calls return 0, 1, ..., N-1 in call order.
C1_AppendOffsetsFromZero ==
    (cfg.InitialOffset = 0 /\ Plain)
        => \A i \in 1..Len(appended) : appended[i].off = i - 1

\* C2: Log.Read(o) of an offset a successful Append returned, and that is
\* still in a segment of the list, returns a record with the payload
\* appended at o.
C2_ReadReturnsAppended ==
    (res.op = "Read" /\ Plain /\ cfg.MaxStoreBytes > 0)
        => \A i \in 1..Len(appended) :
               (appended[i].off = res.arg /\ Retained(i))
                   => /\ res.returned
                      /\ res.err = "nil"
                      /\ res.rec.Value = appended[i].val

\* C3: Log.Read(off) with off >= HighestOffset()+1, or of any offset when
\* nothing was appended, fails with ErrOffsetOutOfRange{Offset: off} and
\* gives back no record.
C3_ReadBeyondHighestFails ==
    (/\ res.op = "Read"
     /\ Plain
     /\ res.arg >= LogHighestOffset(World).off + 1 \/ calls.appends = 0)
        => /\ res.returned
           /\ res.err = "ErrOffsetOutOfRange"
           /\ res.off = res.arg
           /\ res.rec = NoRecord

\* C4: every Log operation releases the lock in the mode in which it took
\* it, so after the operation the lock is free and the caller has its result.
C4_LockReleasedAsAcquired ==
    res.op \in {"Append", "Read", "LowestOffset", "HighestOffset", "Reader",
                "Truncate", "Close"}
        => res.returned /\ ~mu.writer /\ mu.readers = 0

AppendStep == res'.op = "Append" /\ calls'.appends # calls.appends

\* a step that is NewLog on the directory of a closed log
ReopenStep == res'.op = "NewLog" /\ calls'.opens # calls.opens

\* C6: after Log.Truncate(lowest) returned nil, every appended offset
\* o > lowest that a segment held before is still readable: Log.Read(o)
\* returns the payload appended at o.
C6_TruncateKeepsHigherOffsets ==
    [][(TruncateReturnedNil /\ Plain /\ cfg.MaxStoreBytes > 0) =>
          \A i \in 1..Len(appended) :
              (appended[i].off > res'.arg /\ Retained(i)) =>
                  LET r == ReadCall(World', mu', appended[i].off)
                  IN  r.returned /\ r.err = "nil" /\ r.rec.Value = appended[i].val
      ]_vars

\* C7: a Log.Append that finds the active segment maxed makes a new
\* segment whose base offset is the old active segment's nextOffset, makes
\* it active and appends to it; the records of the old and of the new
\* segment are readable by their offsets through Log.Read.
C7_RolloverKeepsRecordsReadable ==
    [][(/\ AppendStep
        /\ Plain /\ cfg.MaxStoreBytes > 0
        /\ IsMaxed(heap[activeSegment], cfg)) =>
          /\ Len(segments') = Len(segments) + 1
          /\ activeSegment' = segments'[Len(segments')]
          /\ heap'[activeSegment'].baseOffset = heap[activeSegment].nextOffset
          /\ res'.err = "nil"
          /\ res'.off = heap[activeSegment].nextOffset
          /\ \A i \in 1..Len(appended') :
                 LET r == ReadCall(World', mu', appended'[i].off)
                 IN  r.returned /\ r.err = "nil" /\ r.rec.Value = appended'[i].val
      ]_vars

\* C8: NewLog on the directory of a closed log that holds records gives
\* the LowestOffset() and HighestOffset() of before the Close, one segment
\* per base offset in ascending order, and every offset that was held
\* readable with its payload.
C8_ReopenReproducesLog ==
    [][(/\ ReopenStep
        /\ cfg.MaxStoreBytes > 0
        /\ \E i \in 1..Len(appended) : Retained(i)) =>
          /\ LowestOffsetCall(World', mu').returned
          /\ LowestOffsetCall(World', mu').off = LogLowestOffset(World).off
          /\ HighestOffsetCall(World', mu').returned
          /\ HighestOffsetCall(World', mu').off = LogHighestOffset(World).off
          /\ \A a, b \in 1..Len(segments') :
                 a < b => heap'[segments'[a]].baseOffset < heap'[segments'[b]].baseOffset
          /\ \A i \in 1..Len(appended) :
                 Retained(i) =>
                     LET r == ReadCall(World', mu', appended[i].off)
                     IN  r.returned /\ r.err = "nil" /\ r.rec.Value = appended[i].val
      ]_vars

\* C9: Log.Reset(), called on the log NewLog made (no Truncate, Close or
\* Remove before it), returns nil and leaves one segment, active, open and
\* empty, with base offset InitialOffset; no offset is found by Log.Read.
C9_ResetGivesFreshLog ==
    (res.op = "Reset" /\ calls.opens = 1 /\ calls.admin = 1)
        => /\ res.err = "nil"
           /\ Len(segments) = 1
           /\ activeSegment = segments[1]
           /\ heap[activeSegment].baseOffset = cfg.InitialOffset
           /\ heap[activeSegment].nextOffset = cfg.InitialOffset
           /\ ~heap[activeSegment].closed
           /\ heap[activeSegment].storeSize = 0
           /\ \A o \in Offsets : LogRead(World, o).err = "ErrOffsetOutOfRange"

\* the records of a byte stream cut at its length prefixes
\* (stream entries are the length-prefixed entries of the store files)
StreamRecords(stream) == [k \in 1..Len(stream) |-> Unmarshal(stream[k].data)]

\* the appended records that a segment of the list still holds, in the
\* order of their offsets (the order in which they were appended)
RECURSIVE RetainedRecords(_)
RetainedRecords(i) ==
    IF i > Len(appended) THEN << >>
    ELSE (IF Retained(i)
          THEN << [Value |-> appended[i].val, Offset |-> appended[i].off] >>
          ELSE << >>) \o RetainedRecords(i + 1)

\* C10: Log.Reader() gives the store contents of the retained segments in
\* ascending base-offset order, each once: cut at the length prefixes, the
\* stream is every retained record once, in ascending offset order.
C10_ReaderYieldsEveryRecordOnce ==
    (res.op = "Reader" /\ Plain)
        => /\ res.returned
           /\ res.err = "nil"
           /\ StreamRecords(res.stream) = RetainedRecords(1)

\* a step that is a call of Log.Truncate
TruncateStep == res'.op = "Truncate" /\ calls'.admin # calls.admin

\* C11: LowestOffset() and HighestOffset(), called on a log that has seen
\* Append calls (with their rollovers) only, return without error the base
\* offset of the first segment of the list and the last segment's
\* nextOffset - 1 (0 when that nextOffset is 0).
C11_OffsetQueriesReturnEnds ==
    (res.op \in {"LowestOffset", "HighestOffset"} /\ Plain)
        => /\ res.returned
           /\ res.err = "nil"
           /\ res.op = "LowestOffset"
                  => res.off = heap[segments[1]].baseOffset
           /\ res.op = "HighestOffset"
                  => res.off = (IF heap[segments[Len(segments)]].nextOffset = 0 THEN 0
                                ELSE heap[segments[Len(segments)]].nextOffset - 1)

\* the list is not empty and the active segment is its last element, open
ActiveIsLast(w) ==
    /\ w.segments # << >>
    /\ w.activeSegment = w.segments[Len(w.segments)]
    /\ ~w.heap[w.activeSegment].closed

\* C12: a Log.Truncate on a log (MaxStoreBytes > 0) whose active segment
\* is the open last element of a non-empty list leaves it so: the list
\* stays non-empty and the active segment is neither removed nor closed.
C12_TruncateKeepsActiveSegment ==
    [][(TruncateStep /\ cfg.MaxStoreBytes > 0 /\ ActiveIsLast(World))
           => ActiveIsLast(World')]_vars

\* C13: the base offsets of the segments of the list are strictly
\* increasing, whatever MaxStoreBytes and MaxIndexBytes are.
C13_BaseOffsetsStrictlyIncrease ==
    \A a, b \in 1..Len(segments) :
        a < b => heap[segments[a]].baseOffset < heap[segments[b]].baseOffset

\* C14: while a Remove or a Reset is between closing the segments and
\* deleting the directory (or, for Reset, setting the log up again), no
\* Append or Read call runs (log with MaxStoreBytes > 0).
C14_RemoveExcludesAppendAndRead ==
    (pc # "idle" /\ cfg.MaxStoreBytes > 0) => res.op \notin {"Append", "Read"}

\* C16: no Log.Append fails with the error of a full index (io.EOF from
\* index.Write).
C16_AppendNeverFindsIndexFull ==
    res.op = "Append" => res.err # "EOF"

\* the counts of the segment at heap address h agree: nextOffset - baseOffset
\* index entries, and as many records in the store
SegmentCounts(w, h) ==
    LET s == w.heap[h]
    IN  /\ s.baseOffset <= s.nextOffset
        /\ s.nextOffset - s.baseOffset = s.indexSize \div entWidth
        /\ s.nextOffset - s.baseOffset = Len(w.files[s.fid].store)

\* C17: after every Append the counts of every segment agree; an Append
\* that failed has left every nextOffset as it was and has made no offset
\* readable that was not readable before.
C17_SegmentCountsAgree ==
    [][AppendStep =>
          /\ \A h \in 1..Len(heap') : SegmentCounts(World', h)
          /\ res'.err # "nil" =>
                 /\ \A h \in 1..Len(heap) : heap'[h].nextOffset = heap[h].nextOffset
                 /\ \A o \in Offsets :
                        LogRead(World', o).err = "nil" => LogRead(World, o).err = "nil"
      ]_vars

\* C19: a Log.Append changes nothing of a segment that is not the active
\* one when the call begins, nor of one it supersedes: nextOffset, index
\* and store of every segment but the one appended to stay as they were.
C19_SealedSegmentsUnchanged ==
    [][AppendStep =>
          \A h \in 1..Len(heap) :
              h # activeSegment' =>
                  /\ heap'[h] = heap[h]
                  /\ files'[heap[h].fid].store = files[heap[h].fid].store
                  /\ files'[heap[h].fid].index = files[heap[h].fid].index
      ]_vars

\* C18 as claimed: an Append on an active segment that is not maxed makes
\* no new segment, and no store grows beyond MaxStoreBytes (MaxStoreBytes > 0).
C18_StoreWithinMaxStoreBytes ==
    [][(AppendStep /\ cfg.MaxStoreBytes > 0) =>
          /\ ~IsMaxed(heap[activeSegment], cfg)
                 => segments' = segments /\ activeSegment' = activeSegment
          /\ \A h \in 1..Len(heap') : heap'[h].storeSize <= cfg.MaxStoreBytes
      ]_vars

\* C18 as amended: Log.Append rolls over exactly when the active segment
\* is maxed as the call begins (store size >= MaxStoreBytes, or no room in
\* the index for one more entry), never before.  On a segment that is not
\* maxed it keeps the list and the active segment and writes the record
\* whole, whatever size that gives the store: the bound is tested on the
\* size before the write, so a store does grow beyond MaxStoreBytes.
C18_RolloverOnlyWhenMaxed ==
    [][AppendStep =>
          LET a == heap[activeSegment]
              width == lenWidth + MarshalLen(Marshal([Value |-> res'.val,
                                                      Offset |-> a.nextOffset]))
          IN  IF \/ a.storeSize >= cfg.MaxStoreBytes
                 \/ a.indexSize + entWidth > cfg.MaxIndexBytes
              THEN dirExists =>
                       /\ Len(segments') = Len(segments) + 1
                       /\ activeSegment' = segments'[Len(segments')]
                       /\ activeSegment' # activeSegment
                       /\ heap'[activeSegment'].baseOffset = a.nextOffset
              ELSE /\ segments' = segments
                   /\ activeSegment' = activeSegment
                   /\ ~a.closed => heap'[activeSegment].storeSize = a.storeSize + width
      ]_vars

\* C18 witness: an Append on the first, never maxed segment has taken its
\* store beyond MaxStoreBytes, and there is still no second segment.
C18_Witness ==
    /\ res.op = "Append" /\ res.err = "nil"
    /\ calls.opens = 1
    /\ cfg.MaxStoreBytes > 0
    /\ Len(heap) = 1
    /\ segments = << 1 >>
    /\ heap[1].storeSize > cfg.MaxStoreBytes

\* the listed segments of w follow one another without gap, and no offset
\* lies in two of them
ContiguousCover(w) ==
    /\ \A i \in 1..(Len(w.segments) - 1) :
           w.heap[w.segments[i]].nextOffset = w.heap[w.segments[i + 1]].baseOffset
    /\ \A o \in Offsets :
           Cardinality({ i \in 1..Len(w.segments) :
                           /\ w.heap[w.segments[i]].baseOffset <= o
                           /\ o < w.heap[w.segments[i]].nextOffset }) <= 1

\* C20: after every step the listed segments cover a contiguous range of
\* offsets: each segment's nextOffset is the base offset of the next one,
\* at most one segment holds a given offset, and what a Truncate takes out
\* of the list is a prefix of it.
C20_SegmentsCoverContiguousRange ==
    [][/\ ContiguousCover(World')
       /\ TruncateStep =>
              \E k \in 0..Len(segments) :
                  segments' = SubSeq(segments, k + 1, Len(segments))
      ]_vars

\* C20 witness: several Appends and rollovers, then a Truncate that took a
\* proper prefix out of the list and left two or more segments, which
\* follow one another and hold appended offsets.
C20_Witness ==
    /\ res.op = "Truncate" /\ res.err = "nil"
    /\ calls.opens = 1
    /\ Len(segments) >= 2
    /\ heap[segments[1]].baseOffset > cfg.InitialOffset
    /\ heap[segments[1]].nextOffset = heap[segments[2]].baseOffset
    /\ \E i, j \in 1..Len(appended) :
           /\ FindSegment(World, appended[i].off) = 1
           /\ FindSegment(World, appended[j].off) = 2

\* C15: with several goroutines inside Log.Append and Log.Read, the
\* successful appends get, in the order in which their callers took the
\* lock, offsets that go up by one (so all differ and leave no gap); and a
\* rollover between its two assignments (list extended, active pointer not
\* yet moved) is seen by no other caller: whoever else is inside a call
\* finds the active segment to be the last of the list.
C15_AppendsSerialised ==
    /\ \A i \in 1..(Len(appended) - 1) :
           /\ appended[i].ticket < appended[i + 1].ticket
           /\ appended[i + 1].off = appended[i].off + 1
    /\ \A p \in Callers :
           callers[p].pc = "Append.activeSegment" =>
               \A q \in Callers \ {p} : callers[q].pc = "idle"
    /\ \A p \in Callers :
           callers[p].pc \notin {"idle", "Append.activeSegment"} =>
               /\ segments # << >>
               /\ activeSegment = segments[Len(segments)]

\* C15 witness: both goroutines have appended with success, one of them
\* rolled over, and one is inside a call again after the rollover.
C15_Witness ==
    /\ Len(appended) >= 3
    /\ \E i, j \in 1..Len(appended) : appended[i].caller # appended[j].caller
    /\ Len(segments) >= 2
    /\ \E i \in 1..Len(appended) : FindSegment(World, appended[i].off) = 2
    /\ \E p \in Callers : callers[p].pc \in {"Append.IsMaxed", "Read.segments"}

====
